---- MODULE Spec2Model ----
(***************************************************************************)
(* Driver Rating Dashboard (src/app.py): a Streamlit script that loads a   *)
(* spreadsheet once per process (st.cache_data), reads three sidebar       *)
(* widgets, filters the table and renders twenty panels and a footer.      *)
(* Streamlit re-executes the whole script, top to bottom, on every         *)
(* interaction.  The model follows one session of one process: the         *)
(* variables are the process-wide cache, the session's widget state, the   *)
(* script's position and locals, and what the page shows.                  *)
(*                                                                         *)
(* Numbers.  Driver Rating is kept in half points (4.0 is 8), the unit of  *)
(* the slider's step; the other numeric columns are integers.  A mean is   *)
(* the exact fraction [num, den] of the float division sum/count, and      *)
(* 0/0 is not-a-number.  Cells are never missing: the rows follow the      *)
(* column types of the data model (numeric, categorical, calendar date).   *)
(***************************************************************************)
EXTENDS Integers, Sequences, FiniteSets, TLC

VARIABLES
    storage,        \* the spreadsheet resource on disk: <<>> absent, <<sheet>> present
    cache,          \* st.cache_data entry of load_data(): <<>> or <<table>>
    reads,          \* completed reads of the spreadsheet from storage
    ss,             \* session state of the three widgets (<<>> = never set by the user)
    pc,             \* position of the running script
    df,             \* script local df: <<>> or <<table>>
    rating_range,   \* script locals (min_rating, max_rating): <<>> or <<lo, hi>>
    customer_type,  \* script local customer_type: <<>> or <<set>>
    payment_method, \* script local payment_method: <<>> or <<set>>
    filtered_df,    \* script local filtered_df: <<>> or <<table>>
    shown,          \* number of panels on the page (panels 1..shown, in order)
    df_daily,       \* panel 13's aggregate: <<>> or <<sequence of [key, mean]>>
    df_time,        \* panel 14's aggregate
    kpi,            \* panel 19's three metrics: <<>> or <<record>>
    controls,       \* sidebar widgets on the page
    footer,         \* whether the footer is on the page
    err             \* the exception that ended the run, "" if none

vars == <<storage, cache, reads, ss, pc, df, rating_range, customer_type,
          payment_method, filtered_df, shown, df_daily, df_time, kpi,
          controls, footer, err>>

----------------------------------------------------------------------------
(* Bounds of the model *)

MaxRows == 2
PoolSize == 3
HandleStops == 3

(* Program constants *)

SliderMin == 2
SliderMax == 10
KeptColumns == 8
NumPanels == 20

----------------------------------------------------------------------------
(* Columns and rows *)

RATING == "Driver Rating"
CTYPE == "Customer Type"
PAY == "Payment Method"
VALUE == "Order Value"
TIME == "Delivery Time(Minutes)"
DIST == "Delivery Distance (KM)"
DATE == "Date"

NamedCols == {RATING, CTYPE, PAY, VALUE, TIME, DIST, DATE}

Range(s) == {s[i] : i \in 1..Len(s)}

Min2(a, b) == IF a <= b THEN a ELSE b

MkRow(id, date, ct, pm, val, tm, dist, rt, notes) ==
    ("Order ID" :> id) @@ (DATE :> date) @@ (CTYPE :> ct) @@ (PAY :> pm) @@
    (VALUE :> val) @@ (TIME :> tm) @@ (DIST :> dist) @@ (RATING :> rt) @@
    ("Notes" :> notes)

\* Delivery records the sheets are made of.  Dates are day numbers.
Pool ==
    << MkRow(1, 2, "New",    "Cash",   50, 30,  5, 8,  ""),
       MkRow(2, 1, "Repeat", "Card",   80, 45, 12, 4,  ""),
       MkRow(3, 2, "New",    "Card",   25, 20,  3, 10, ""),
       MkRow(4, 3, "Repeat", "Wallet", 40, 31,  7, 5,  ""),
       MkRow(5, 1, "New",    "Cash",   61, 50,  9, 2,  "") >>

PoolRows == {Pool[k] : k \in 1..Min2(PoolSize, Len(Pool))}

SeqsUpTo(S, n) == UNION {[1..k -> S] : k \in 0..n}

\* Column layouts of the sheet.
Standard ==
    <<"Order ID", DATE, CTYPE, PAY, VALUE, TIME, DIST, RATING>>
Short7 == <<DATE, CTYPE, PAY, VALUE, TIME, DIST, RATING>>
Short3 == <<"Order ID", DATE, RATING>>
Wide9 == <<"Order ID", "Notes", CTYPE, PAY, VALUE, TIME, DIST, RATING, DATE>>

ProjectRow(r, cols) == [c \in cols |-> r[c]]

Sheet(layout, rows) ==
    [cols |-> layout,
     rows |-> [i \in 1..Len(rows) |-> ProjectRow(rows[i], Range(layout))]]

SampleRows == <<Pool[1], Pool[2]>>

Sheets ==
    {Sheet(Standard, rows) : rows \in SeqsUpTo(PoolRows, MaxRows)}
    \cup {Sheet(l, SampleRows) : l \in {Short7, Short3, Wide9}}

----------------------------------------------------------------------------
(* load_data, lines 9-14 *)

\* df.iloc[:, :8]: the first eight columns, or all of them if there are fewer.
Iloc_no_slice(sheet, n) == sheet
Iloc(sheet, n) ==
    LET keep == SubSeq(sheet.cols, 1, Min2(n, Len(sheet.cols)))
    IN  [cols |-> keep,
         rows |-> [i \in 1..Len(sheet.rows) |->
                      ProjectRow(sheet.rows[i], Range(keep))]]

\* pd.read_excel(...) followed by the column slice.
ReadExcel(sheet) == Iloc(sheet, KeptColumns)

HasCol(t, c) == c \in Range(t.cols)

\* df[c].unique()
Unique(t, c) == {t.rows[i][c] : i \in 1..Len(t.rows)}

Init ==
    /\ storage \in {<<>>} \cup {<<s>> : s \in Sheets}
    /\ cache = <<>>
    /\ reads = 0
    /\ ss = [slider |-> <<>>, ctype |-> <<>>, pay |-> <<>>]
    /\ pc = "load"
    /\ df = <<>>
    /\ rating_range = <<>>
    /\ customer_type = <<>>
    /\ payment_method = <<>>
    /\ filtered_df = <<>>
    /\ shown = 0
    /\ df_daily = <<>>
    /\ df_time = <<>>
    /\ kpi = <<>>
    /\ controls = {}
    /\ footer = FALSE
    /\ err = ""

\* @st.cache_data: the value load_data returned is kept for the process.
CacheStore_skipped(t) == <<>>
CacheStore(t) == <<t>>

Raise(e) ==
    /\ pc' = "error"
    /\ err' = e

\* Line 14: df = load_data().  A cached table is returned without touching
\* storage; otherwise the sheet is read and the result cached.  An exception
\* caches nothing.
LoadData ==
    /\ pc = "load"
    /\ IF cache # <<>>
       THEN /\ df' = cache
            /\ pc' = "slider"
            /\ UNCHANGED <<cache, reads, err>>
       ELSE IF storage = <<>>
       THEN /\ Raise("FileNotFoundError")
            /\ UNCHANGED <<cache, reads, df>>
       ELSE /\ cache' = CacheStore(ReadExcel(storage[1]))
            /\ reads' = reads + 1
            /\ df' = <<ReadExcel(storage[1])>>
            /\ pc' = "slider"
            /\ UNCHANGED err
    /\ UNCHANGED <<storage, ss, rating_range, customer_type, payment_method,
                   filtered_df, shown, df_daily, df_time, kpi, controls, footer>>

----------------------------------------------------------------------------
(* Sidebar widgets, lines 17-20 *)

\* A widget returns the session's value once the user has set it, and its
\* default before.
WidgetValue(state, default) == IF state = <<>> THEN default ELSE state[1]

\* Line 18: st.sidebar.slider(..., 1.0, 5.0, (1.0, 5.0), 0.5); reads no column.
Slider ==
    /\ pc = "slider"
    /\ rating_range' = WidgetValue(ss.slider, <<SliderMin, SliderMax>>)
    /\ controls' = controls \cup {"slider"}
    /\ pc' = "ctype"
    /\ UNCHANGED <<storage, cache, reads, ss, df, customer_type, payment_method,
                   filtered_df, shown, df_daily, df_time, kpi, footer, err>>

\* Line 19: options and default are df["Customer Type"].unique().
CustomerTypeSelect ==
    /\ pc = "ctype"
    /\ IF ~HasCol(df[1], CTYPE)
       THEN /\ Raise("KeyError")
            /\ UNCHANGED <<customer_type, controls>>
       ELSE /\ customer_type' = <<WidgetValue(ss.ctype, Unique(df[1], CTYPE))>>
            /\ controls' = controls \cup {"ctype"}
            /\ pc' = "pay"
            /\ UNCHANGED err
    /\ UNCHANGED <<storage, cache, reads, ss, df, rating_range, payment_method,
                   filtered_df, shown, df_daily, df_time, kpi, footer>>

\* Line 20: options and default are df["Payment Method"].unique().
PaymentMethodSelect ==
    /\ pc = "pay"
    /\ IF ~HasCol(df[1], PAY)
       THEN /\ Raise("KeyError")
            /\ UNCHANGED <<payment_method, controls>>
       ELSE /\ payment_method' = <<WidgetValue(ss.pay, Unique(df[1], PAY))>>
            /\ controls' = controls \cup {"pay"}
            /\ pc' = "filter"
            /\ UNCHANGED err
    /\ UNCHANGED <<storage, cache, reads, ss, df, rating_range, customer_type,
                   filtered_df, shown, df_daily, df_time, kpi, footer>>

----------------------------------------------------------------------------
(* Apply filters, lines 23-28 *)

\* (df["Driver Rating"] >= min_rating) & (df["Driver Rating"] <= max_rating)
InRange_exclusive(x, lo, hi) == x > lo /\ x < hi
InRange(x, lo, hi) == x >= lo /\ x <= hi

\* Series.isin(values)
Isin_all_when_empty(x, values) == values = {} \/ x \in values
Isin(x, values) == x \in values

\* The boolean mask of lines 24-27, for one row.
Mask(r, lo, hi, c, p) ==
    /\ InRange(r[RATING], lo, hi)
    /\ Isin(r[CTYPE], c)
    /\ Isin(r[PAY], p)

\* df[mask]: a new table of the rows where the mask is true, in order.
BoolIndex(t, lo, hi, c, p) ==
    [cols |-> t.cols,
     rows |-> SelectSeq(t.rows, LAMBDA r : Mask(r, lo, hi, c, p))]

\* Lines 23-28 build a new frame and assign nothing else: the table that
\* load_data cached is what it was.
CachedAfterFilter_narrowed(cached, view) == <<view>>
CachedAfterFilter(cached, view) == cached

ApplyFilters ==
    /\ pc = "filter"
    /\ IF ~HasCol(df[1], RATING)
       THEN /\ Raise("KeyError")
            /\ UNCHANGED <<filtered_df, cache>>
       ELSE /\ filtered_df' = <<BoolIndex(df[1], rating_range[1], rating_range[2],
                                          customer_type[1], payment_method[1])>>
            /\ cache' = CachedAfterFilter(cache, filtered_df'[1])
            /\ pc' = "panels"
            /\ UNCHANGED err
    /\ UNCHANGED <<storage, reads, ss, df, rating_range, customer_type,
                   payment_method, shown, df_daily, df_time, kpi, controls, footer>>

----------------------------------------------------------------------------
(* Aggregations used by the panels *)

RECURSIVE SumSeq(_)
SumSeq(s) == IF s = <<>> THEN 0 ELSE Head(s) + SumSeq(Tail(s))

\* t[c] as a sequence of cell values.
Column(t, c) == [i \in 1..Len(t.rows) |-> t.rows[i][c]]

\* Units per 1.0 of a column's stored integers: Driver Rating is stored in
\* half points (the slider's step), every other column in whole units.
RatingUnit == 2
Unit(c) == IF c = RATING THEN RatingUnit ELSE 1

\* Series.mean(): sum/count as an exact fraction; 0/0 (no rows) is NaN.
Mean(t, c) == [num |-> SumSeq(Column(t, c)), den |-> Unit(c) * Len(t.rows)]

IsNaN(m) == m.den = 0

\* f"{x:.2f}": "nan" for NaN, otherwise the number of hundredths nearest to
\* x, an exact tie going to the even neighbour.  (A tie num/den is a
\* multiple of 1/8 when den <= 19, hence exact in binary floating point.)
Format2f(m) ==
    IF IsNaN(m) THEN [nan |-> TRUE, hundredths |-> 0]
    ELSE LET q == (100 * m.num) \div m.den
             r == (100 * m.num) % m.den
         IN  [nan |-> FALSE,
              hundredths |-> IF 2 * r > m.den THEN q + 1
                             ELSE IF 2 * r < m.den THEN q
                             ELSE q + (q % 2)]

RECURSIVE SortAsc(_)
SortAsc(S) ==
    IF S = {} THEN <<>>
    ELSE LET m == CHOOSE x \in S : \A y \in S : x <= y
         IN  <<m>> \o SortAsc(S \ {m})

RECURSIVE FirstSeen(_)
FirstSeen(s) ==
    IF s = <<>> THEN <<>>
    ELSE LET init == FirstSeen(SubSeq(s, 1, Len(s) - 1))
             x == s[Len(s)]
         IN  IF x \in Range(init) THEN init ELSE Append(init, x)

\* groupby(key): the group keys, sorted ascending (sort=True is the default).
GroupKeys_appearance(t, key) == FirstSeen(Column(t, key))
GroupKeys(t, key) == SortAsc(Unique(t, key))

\* The rows of one group.
GroupRows_all(t, key, k) == t
GroupRows(t, key, k) ==
    [cols |-> t.cols, rows |-> SelectSeq(t.rows, LAMBDA r : r[key] = k)]

\* t.groupby(key)[c].mean().reset_index(): one row per group key.
GroupByMean(t, key, c) ==
    LET keys == GroupKeys(t, key)
    IN  [j \in 1..Len(keys) |->
            [key |-> keys[j], mean |-> Mean(GroupRows(t, key, keys[j]), c)]]

----------------------------------------------------------------------------
(* Panels, lines 36-137, and the footer, lines 140-141 *)

\* The columns panel n names.
PanelCols(n) ==
    CASE n = 1 -> {RATING}
      [] n = 2 -> {RATING, VALUE}
      [] n = 3 -> {RATING, TIME}
      [] n = 4 -> {CTYPE, VALUE}
      [] n = 5 -> {PAY}
      [] n = 6 -> {CTYPE, RATING}
      [] n = 7 -> {PAY, TIME}
      [] n = 8 -> {}
      [] n = 9 -> {RATING, TIME}
      [] n = 10 -> {RATING, DIST}
      [] n = 11 -> {RATING, VALUE}
      [] n = 12 -> {DATE, RATING}
      [] n = 13 -> {DATE, RATING}
      [] n = 14 -> {DATE, TIME}
      [] n = 15 -> {VALUE}
      [] n = 16 -> {TIME}
      [] n = 17 -> {}
      [] n = 18 -> {}
      [] n = 19 -> {RATING, TIME, VALUE}
      [] n = 20 -> {DIST}

\* Panels that index the frame themselves (groupby, filtered_df[...]); the
\* others hand column names to plotly express.
PandasPanels == {13, 14, 19}

\* select_dtypes(include='number')
NumericCols(t) == Range(t.cols) \cap {"Order ID", RATING, VALUE, TIME, DIST}

\* The exception panel n raises on frame t, "" if none.  A missing column
\* is a KeyError from pandas and a ValueError from plotly express; the
\* heatmap raises on a correlation matrix without columns.  A frame without
\* rows raises nothing: the charts are empty and the aggregates NaN.
PanelError_empty_heatmap(n, t) ==
    IF ~(PanelCols(n) \subseteq Range(t.cols))
    THEN (IF n \in PandasPanels THEN "KeyError" ELSE "ValueError")
    ELSE IF n = 8 /\ (NumericCols(t) = {} \/ t.rows = <<>>) THEN "ValueError"
    ELSE ""
PanelError(n, t) ==
    IF ~(PanelCols(n) \subseteq Range(t.cols))
    THEN (IF n \in PandasPanels THEN "KeyError" ELSE "ValueError")
    ELSE IF n = 8 /\ NumericCols(t) = {} THEN "ValueError"
    ELSE ""

\* Lines 126-133: the three means and their formatted metrics.
KpiSummary_unfiltered ==
    [avg_rating |-> Mean(df[1], RATING),
     avg_time |-> Mean(df[1], TIME),
     avg_value |-> Mean(df[1], VALUE),
     rating_metric |-> Format2f(Mean(df[1], RATING)),
     time_metric |-> Format2f(Mean(df[1], TIME)),
     value_metric |-> Format2f(Mean(df[1], VALUE))]
KpiSummary ==
    [avg_rating |-> Mean(filtered_df[1], RATING),
     avg_time |-> Mean(filtered_df[1], TIME),
     avg_value |-> Mean(filtered_df[1], VALUE),
     rating_metric |-> Format2f(Mean(filtered_df[1], RATING)),
     time_metric |-> Format2f(Mean(filtered_df[1], TIME)),
     value_metric |-> Format2f(Mean(filtered_df[1], VALUE))]

\* Every panel reads filtered_df and builds new objects from it (figures,
\* groupby results, describe()): the frame is what it was.
ViewAfterPanel_sorted_in_place(n, view) ==
    IF n = 13
    THEN [cols |-> view.cols,
          rows |-> [j \in 1..Len(view.rows) |->
                      view.rows[Len(view.rows) + 1 - j]]]
    ELSE view
ViewAfterPanel(n, view) == view

\* One panel: subheader, computation, chart/table/metric.
RenderPanel ==
    /\ pc = "panels"
    /\ shown < NumPanels
    /\ LET n == shown + 1
           e == PanelError(n, filtered_df[1])
       IN  IF e # ""
           THEN /\ Raise(e)
                /\ UNCHANGED <<shown, df_daily, df_time, kpi, filtered_df>>
           ELSE /\ shown' = n
                /\ df_daily' = IF n = 13
                               THEN <<GroupByMean(filtered_df[1], DATE, RATING)>>
                               ELSE df_daily
                /\ df_time' = IF n = 14
                              THEN <<GroupByMean(filtered_df[1], DATE, TIME)>>
                              ELSE df_time
                /\ kpi' = IF n = 19 THEN <<KpiSummary>> ELSE kpi
                /\ filtered_df' = <<ViewAfterPanel(n, filtered_df[1])>>
                /\ pc' = IF n = NumPanels THEN "footer" ELSE "panels"
                /\ UNCHANGED err
    /\ UNCHANGED <<storage, cache, reads, ss, df, rating_range, customer_type,
                   payment_method, controls, footer>>

Footer ==
    /\ pc = "footer"
    /\ footer' = TRUE
    /\ pc' = "done"
    /\ UNCHANGED <<storage, cache, reads, ss, df, rating_range, customer_type,
                   payment_method, filtered_df, shown, df_daily, df_time, kpi,
                   controls, err>>

----------------------------------------------------------------------------
(* Interactions: each one re-executes the script from the top *)

RunEnded == pc \in {"done", "error"}

\* A new run: fresh script namespace, page redrawn.  The process-wide cache
\* and the session's widget state carry over.
StartRun ==
    /\ pc' = "load"
    /\ df' = <<>>
    /\ rating_range' = <<>>
    /\ customer_type' = <<>>
    /\ payment_method' = <<>>
    /\ filtered_df' = <<>>
    /\ shown' = 0
    /\ df_daily' = <<>>
    /\ df_time' = <<>>
    /\ kpi' = <<>>
    /\ controls' = {}
    /\ footer' = FALSE
    /\ err' = ""
    /\ UNCHANGED <<storage, cache, reads>>

\* The user asks for a rerun without touching a widget.
Rerun ==
    /\ RunEnded
    /\ StartRun
    /\ UNCHANGED ss

\* The slider's positions run from 1.0 to 5.0 in half points; the user parks
\* the handles on the first HandleStops of these.
Positions == <<2, 10, 8, 4, 6, 5, 3, 7, 9>>
SliderStops ==
    {Positions[k] : k \in 1..Min2(HandleStops, Len(Positions))}
        \cap (SliderMin..SliderMax)

\* The user moves the rating slider's handles.
MoveSlider ==
    /\ RunEnded
    /\ "slider" \in controls
    /\ \E lo \in SliderStops, hi \in SliderStops :
          /\ lo <= hi
          /\ ss' = [ss EXCEPT !.slider = << <<lo, hi>> >>]
    /\ StartRun

\* The user changes the customer type selection.
PickCustomerTypes ==
    /\ RunEnded
    /\ "ctype" \in controls
    /\ \E sel \in SUBSET Unique(df[1], CTYPE) :
          ss' = [ss EXCEPT !.ctype = <<sel>>]
    /\ StartRun

\* The user changes the payment method selection.
PickPaymentMethods ==
    /\ RunEnded
    /\ "pay" \in controls
    /\ \E sel \in SUBSET Unique(df[1], PAY) :
          ss' = [ss EXCEPT !.pay = <<sel>>]
    /\ StartRun

Next ==
    \/ LoadData
    \/ Slider
    \/ CustomerTypeSelect
    \/ PaymentMethodSelect
    \/ ApplyFilters
    \/ RenderPanel
    \/ Footer
    \/ Rerun
    \/ MoveSlider
    \/ PickCustomerTypes
    \/ PickPaymentMethods

Spec == Init /\ [][Next]_vars
----------------------------------------------------------------------------
(* Properties *)

\* What the properties measure the script against, stated over index sets
\* rather than by the script's own operators.
RowsOf(t) == 1..Len(t.rows)

Matches(t, lo, hi, c, p) ==
    {i \in RowsOf(t) :
        /\ lo <= t.rows[i][RATING]
        /\ t.rows[i][RATING] <= hi
        /\ t.rows[i][CTYPE] \in c
        /\ t.rows[i][PAY] \in p}

\* The j-th smallest index of K.
Nth(K, j) == CHOOSE i \in K : Cardinality({k \in K : k <= i}) = j

\* view holds exactly the rows K of t, in t's order, under t's columns.
IsSelection(view, t, K) ==
    /\ view.cols = t.cols
    /\ Len(view.rows) = Cardinality(K)
    /\ \A j \in 1..Len(view.rows) : view.rows[j] = t.rows[Nth(K, j)]

RECURSIVE Total(_, _, _)
Total(t, K, c) ==
    IF K = {} THEN 0
    ELSE LET i == CHOOSE x \in K : TRUE
         IN  t.rows[i][c] + Total(t, K \ {i}, c)

\* m is the fraction (sum of column c over rows K of t) / (number of rows).
IsMeanOf(m, t, K, c) ==
    /\ m.den # 0
    /\ m.num * (Unit(c) * Cardinality(K)) = m.den * Total(t, K, c)

\* metric is a number, within half a hundredth of m.
Rounds(metric, m) ==
    /\ ~metric.nan
    /\ LET d == 100 * m.num - metric.hundredths * m.den
       IN  2 * (IF d < 0 THEN -d ELSE d) <= m.den

Filtered == filtered_df # <<>>
View == filtered_df[1]
Loaded == df[1]
WellFormed == df # <<>> /\ NamedCols \subseteq Range(Loaded.cols)
CurrentMatches ==
    Matches(Loaded, rating_range[1], rating_range[2], customer_type[1],
            payment_method[1])

\* C1: the filtered view holds exactly the rows of the record table with
\* lo <= Driver Rating <= hi, Customer Type in c and Payment Method in p:
\* none that fails a predicate, and none that satisfies all three missing.
C1_FilterExact == Filtered => IsSelection(View, Loaded, CurrentMatches)

\* A row whose rating sits on the lower end of the range is kept, while
\* another row of the table is filtered out.
C1_Witness ==
    /\ Filtered
    /\ Len(View.rows) < Len(Loaded.rows)
    /\ \E j \in RowsOf(View) : View.rows[j][RATING] = rating_range[1]

\* C2: an empty customer type selection, or an empty payment method
\* selection, gives a view without rows, whatever the range, the other
\* selection and the table are.
C2_EmptySelectionEmptyView ==
    (Filtered /\ (customer_type[1] = {} \/ payment_method[1] = {}))
        => View.rows = <<>>

\* Nothing selected for customer type, everything else wide open, over a
\* table that has rows.
C2_Witness ==
    /\ Filtered
    /\ customer_type[1] = {}
    /\ rating_range = <<SliderMin, SliderMax>>
    /\ payment_method[1] = Unique(Loaded, PAY)
    /\ Loaded.rows # <<>>

\* C3: over a view with rows, each KPI is the arithmetic mean of its column
\* over exactly the rows the current inputs select from the record table,
\* and the metric shown is that mean to two decimals.
C3_KpiIsMeanOfFiltered ==
    (kpi # <<>> /\ View.rows # <<>>) =>
        /\ IsMeanOf(kpi[1].avg_rating, Loaded, CurrentMatches, RATING)
        /\ IsMeanOf(kpi[1].avg_time, Loaded, CurrentMatches, TIME)
        /\ IsMeanOf(kpi[1].avg_value, Loaded, CurrentMatches, VALUE)
        /\ Rounds(kpi[1].rating_metric, kpi[1].avg_rating)
        /\ Rounds(kpi[1].time_metric, kpi[1].avg_time)
        /\ Rounds(kpi[1].value_metric, kpi[1].avg_value)

\* The KPIs are on the page over a view that has rows but not all of them.
C3_Witness ==
    /\ kpi # <<>>
    /\ View.rows # <<>>
    /\ Len(View.rows) < Len(Loaded.rows)

DatesIn(t) == {t.rows[i][DATE] : i \in RowsOf(t)}
OnDate(t, d) == {i \in RowsOf(t) : t.rows[i][DATE] = d}

\* out has one row per date of t and nothing else, each row's value being
\* the mean of column c over t's rows of that date.
IsDailyMean(out, t, c) ==
    /\ Len(out) = Cardinality(DatesIn(t))
    /\ {out[j].key : j \in 1..Len(out)} = DatesIn(t)
    /\ \A j \in 1..Len(out) : IsMeanOf(out[j].mean, t, OnDate(t, out[j].key), c)

\* C5: each grouped-by-date panel has exactly one output row per distinct
\* Date of the filtered view, none for another date, and each value is the
\* mean of the panel's column over the view's rows of that date only.
C5_OneRowPerDate ==
    /\ df_daily # <<>> => IsDailyMean(df_daily[1], View, RATING)
    /\ df_time # <<>> => IsDailyMean(df_time[1], View, TIME)

\* Both aggregates are computed over a view with two dates, one of them
\* shared by two rows.
C5_Witness ==
    /\ df_daily # <<>>
    /\ df_time # <<>>
    /\ Len(df_time[1]) >= 1
    /\ \E i, j \in RowsOf(View) :
          i # j /\ View.rows[i][DATE] = View.rows[j][DATE]

Ascending(out) ==
    \A j, k \in 1..Len(out) : j < k => out[j].key < out[k].key

\* C9: the output rows of both grouped-by-date panels are in ascending
\* order of Date, whatever the order of the dates in the filtered view.
C9_DatesAscending ==
    /\ df_daily # <<>> => Ascending(df_daily[1])
    /\ df_time # <<>> => Ascending(df_time[1])

\* Both aggregates are computed over a view whose dates fall row by row.
C9_Witness ==
    /\ df_daily # <<>>
    /\ df_time # <<>>
    /\ \E i \in RowsOf(View) :
          i + 1 \in RowsOf(View) /\ View.rows[i][DATE] > View.rows[i + 1][DATE]

Present == storage # <<>>
Stored == storage[1]

\* t is the sheet cut to its first KeptColumns columns (all of them when
\* there are fewer), every row kept.
IsLoadOf(t, sheet) ==
    /\ Len(t.cols) = Min2(KeptColumns, Len(sheet.cols))
    /\ \A i \in 1..Len(t.cols) : t.cols[i] = sheet.cols[i]
    /\ Len(t.rows) = Len(sheet.rows)
    /\ \A i \in RowsOf(t) :
          /\ DOMAIN t.rows[i] = Range(t.cols)
          /\ \A c \in Range(t.cols) : t.rows[i][c] = sheet.rows[i][c]

NothingRendered == controls = {} /\ shown = 0 /\ ~footer

\* C6 as stated: the load fails when the file is absent (ResourceNotFound)
\* and when the sheet has fewer than eight columns (SchemaMismatch), and
\* after the failure no filter control and no panel is rendered.
C6_LoadFailsOnAbsentOrShort ==
    IF ~Present
    THEN df = <<>> /\ NothingRendered
         /\ (pc = "error" => err = "FileNotFoundError")
    ELSE Len(Stored.cols) < KeptColumns =>
            /\ df = <<>> /\ NothingRendered
            /\ (pc = "error" => err = "SchemaMismatch")

\* C6, amended: an absent file fails the load with a file-not-found error
\* and nothing is rendered after it.  A sheet that is present always loads,
\* cut to its first eight columns or kept whole when it has fewer; a run
\* over it fails only where a missing named column is first used, which is
\* after the rating slider is on the page, and not at all when every named
\* column is there.
C6_LoadOutcome ==
    IF ~Present
    THEN /\ df = <<>> /\ cache = <<>> /\ reads = 0
         /\ NothingRendered
         /\ pc \in {"load", "error"}
         /\ (pc = "error" => err = "FileNotFoundError")
    ELSE /\ err # "FileNotFoundError"
         /\ (pc # "load" => df # <<>> /\ IsLoadOf(Loaded, Stored))
         /\ (pc = "error" =>
                /\ "slider" \in controls
                /\ err \in {"KeyError", "ValueError"}
                /\ ~WellFormed)

\* A sheet of fewer than eight columns has loaded, the slider is on the
\* page, and the run has failed at a missing column.
C6_Witness ==
    /\ Present
    /\ Len(Stored.cols) < KeptColumns
    /\ df # <<>>
    /\ pc = "error"
    /\ "slider" \in controls

UserHasActed == ss.slider # <<>> \/ ss.ctype # <<>> \/ ss.pay # <<>>

\* C7: with the resource unchanged the spreadsheet is read at most once;
\* every run's load_data returns the cached table, whose content is that of
\* the first read.
C7_ReadAtMostOnce ==
    /\ reads <= 1
    /\ cache # <<>> => (reads = 1 /\ IsLoadOf(cache[1], Stored))
    /\ df # <<>> => (cache # <<>> /\ df = cache)

\* A later run (the user has changed an input since the first) has its
\* table, and storage was read once.
C7_Witness ==
    /\ UserHasActed
    /\ df # <<>>
    /\ reads = 1
    /\ pc = "done"

\* The record table and the inputs in force, from what persists between
\* runs: the resource and the session's widget state.
RecordTable ==
    LET n == Min2(KeptColumns, Len(Stored.cols))
        keep == [i \in 1..n |-> Stored.cols[i]]
    IN  [cols |-> keep,
         rows |-> [i \in 1..Len(Stored.rows) |->
                      [c \in Range(keep) |-> Stored.rows[i][c]]]]
RangeInForce ==
    IF ss.slider = <<>> THEN <<SliderMin, SliderMax>> ELSE ss.slider[1]
TypesInForce ==
    IF ss.ctype = <<>>
    THEN {RecordTable.rows[i][CTYPE] : i \in RowsOf(RecordTable)}
    ELSE ss.ctype[1]
MethodsInForce ==
    IF ss.pay = <<>>
    THEN {RecordTable.rows[i][PAY] : i \in RowsOf(RecordTable)}
    ELSE ss.pay[1]

\* C8: filtering is idempotent and history-free: in every run the view is
\* the filter of the record table under the inputs now in force, whatever
\* inputs and views came before, so the same inputs give the same view.
C8_ViewFromCurrentInputsOnly ==
    Filtered =>
        IsSelection(View, RecordTable,
                    Matches(RecordTable, RangeInForce[1], RangeInForce[2],
                            TypesInForce, MethodsInForce))

\* All three inputs have been changed by the user and are back at the full
\* range and full selections; the view is again the whole table.
C8_Witness ==
    /\ Filtered
    /\ ss.slider = << <<SliderMin, SliderMax>> >>
    /\ ss.ctype # <<>>
    /\ ss.pay # <<>>
    /\ Len(View.rows) >= 2
    /\ View.rows = Loaded.rows

\* C10: once loaded, the cached record table is never changed; no panel
\* (nor the footer) changes the filtered view or the table, so every panel
\* of a run sees the same view; an input change touches neither the cache
\* nor the resource.
C10_ReadOnlyAfterLoad ==
    [][ /\ cache # <<>> => cache' = cache
        /\ pc \in {"panels", "footer"} =>
              (filtered_df' = filtered_df /\ df' = df /\ cache' = cache)
        /\ ss' # ss => (cache' = cache /\ storage' = storage /\ reads' = reads)
      ]_vars

\* A run in which all twenty panels rendered a view of two different rows,
\* after the user changed an input.
C10_Witness ==
    /\ pc = "done"
    /\ UserHasActed
    /\ shown = NumPanels
    /\ Len(View.rows) >= 2
    /\ View.rows[1] # View.rows[2]

====
